---- MODULE Spec2Model ----
(***************************************************************************)
(* Barcode-to-diary reconciliation pipeline of barcode_scanner_v2.py.      *)
(*                                                                         *)
(* Strings are sequences of one-character strings, so that joining the     *)
(* key buffer, building the secondary-source queries, title-casing and     *)
(* appending the review marker are computed as the code computes them.     *)
(* A Python value that may be None (or a missing dict key, which .get      *)
(* turns into None) is a sequence of length at most one: << >> is None,    *)
(* <<v>> is the value v.                                                   *)
(* Nutrient values and quantities are integers in thousandths (1500 is     *)
(* 1.5); scale readings are in tenths of a gram, so that weight/100 in     *)
(* thousandths of a serving is the reading itself.                         *)
(***************************************************************************)
EXTENDS Integers, Sequences, FiniteSets, TLC

(***************************************************************************)
(* Bounds of the model.                                                    *)
(***************************************************************************)
\* number of barcodes the reader hands to the pipeline in one behaviour
MaxScans == 2
\* longest foodNutrients list of a secondary-source food
MaxNutrients == 2
\* number of events the scanner device emits in one behaviour
MaxKeys == 5

None == << >>
Some(v) == <<v>>
IsNone(o) == o = << >>
Val(o) == o[1]

(***************************************************************************)
(* Text helpers: str.isupper(), str.title(), str concatenation.            *)
(***************************************************************************)
UpperChars == {"A", "B", "C", "D"}
LowerChars == {"a", "b", "c", "d"}

ToUpper(c) ==
    CASE c = "a" -> "A" [] c = "b" -> "B" [] c = "c" -> "C" [] c = "d" -> "D"
      [] OTHER -> c

ToLower(c) ==
    CASE c = "A" -> "a" [] c = "B" -> "b" [] c = "C" -> "c" [] c = "D" -> "d"
      [] OTHER -> c

IsCased(c) == c \in UpperChars \cup LowerChars

\* str.isupper(): at least one cased character and no lower-case one
IsUpper(s) ==
    /\ \E i \in 1..Len(s) : s[i] \in UpperChars
    /\ \A i \in 1..Len(s) : s[i] \notin LowerChars

\* str.title(): a cased character is upper-cased at the start of a word
\* (after an uncased character) and lower-cased inside one
Title(s) ==
    [i \in 1..Len(s) |->
        IF i = 1 \/ ~IsCased(s[i - 1]) THEN ToUpper(s[i]) ELSE ToLower(s[i])]

UnknownProduct ==
    <<"U", "n", "k", "n", "o", "w", "n", " ", "P", "r", "o", "d", "u", "c", "t">>
ReviewMarker == <<" ", "[", "R", "E", "V", "I", "E", "W", "]">>
QuestionMark == <<"?">>

(***************************************************************************)
(* round(x, 2) on a value in thousandths: the nearest multiple of ten,     *)
(* a tie going to the even hundredth.  The inputs of the model hold no     *)
(* tie, whose result in Python depends on the binary representation.       *)
(***************************************************************************)
Round2(v) ==
    LET q == v \div 10
        r == v % 10
    IN  IF r < 5 THEN q * 10
        ELSE IF r > 5 THEN (q + 1) * 10
        ELSE IF q % 2 = 0 THEN q * 10 ELSE (q + 1) * 10

(***************************************************************************)
(* Nutrient key tables (four of the seventeen rows: the three core macros  *)
(* and one other key).                                                     *)
(***************************************************************************)
SparkyKeys == {"calories", "protein", "carbs", "fat"}
CoreMacros == {"protein", "carbs", "fat"}

NUTRIENT_MAP ==
    [off \in {"energy-kcal_100g", "proteins_100g", "carbohydrates_100g", "fat_100g"} |->
        CASE off = "energy-kcal_100g" -> "calories"
          [] off = "proteins_100g" -> "protein"
          [] off = "carbohydrates_100g" -> "carbs"
          [] off = "fat_100g" -> "fat"]

OffKeys == DOMAIN NUTRIENT_MAP

OffKeyOf(k) == CHOOSE off \in OffKeys : NUTRIENT_MAP[off] = k

USDA_NUTRIENT_MAP ==
    [id \in {1008, 1003, 1005, 1004} |->
        CASE id = 1008 -> "calories"
          [] id = 1003 -> "protein"
          [] id = 1005 -> "carbs"
          [] id = 1004 -> "fat"]

(***************************************************************************)
(* What the remote sources can answer.                                     *)
(***************************************************************************)
\* barcodes on the labels shown to the scanner
Barcodes == {<<"1">>, <<"1", "2">>}

\* product_name of a primary-source product: missing, all upper-case, mixed
ProductNames == {None, Some(<<"A", "B">>), Some(<<"A", "b">>)}
\* brands of a primary-source product: empty, all upper-case
ProductBrands == {<< >>, <<"C", "D">>}

\* a nutrient block with these values under the protein, carbohydrate, fat
\* and energy keys
Block(p, c, f, e) ==
    [off \in OffKeys |->
        CASE off = "proteins_100g" -> p
          [] off = "carbohydrates_100g" -> c
          [] off = "fat_100g" -> f
          [] off = "energy-kcal_100g" -> e]

\* measured blocks: nothing, a zero, a positive or a negative protein alone,
\* carbohydrate alone, energy alone, everything
Nutriments ==
    {Block(None, None, None, None),
     Block(Some(0), None, None, None),
     Block(Some(1500), None, None, None),
     Block(Some(-1000), None, None, None),
     Block(None, Some(1500), None, None),
     Block(None, None, None, Some(1500)),
     Block(Some(1500), Some(1500), Some(1500), Some(1500))}

\* estimated blocks: a positive protein, a protein below 0.005, fat with a
\* zero energy, everything
EstimatedBlocks ==
    {Block(Some(2500), None, None, None),
     Block(Some(4), None, None, None),
     Block(None, None, Some(2500), Some(0)),
     Block(Some(2500), Some(2500), Some(2500), Some(2500))}

PlainName == Some(<<"A", "b">>)
PlainBrand == << >>

\* the product records the primary source can hold for a barcode, with the
\* record carrying its code (hasCode) or lacking it: every nutrient block
\* under one name and brand, and every name and brand over the empty and
\* the full measured block
ProductsFor(barcode, hasCode) ==
    {[product_name |-> nm, brands |-> br,
      code |-> IF hasCode THEN Some(barcode) ELSE None,
      nutriments |-> nu, nutriments_estimated |-> es] :
        nm \in ProductNames, br \in ProductBrands, nu \in Nutriments,
        es \in {None} \cup {Some(e) : e \in EstimatedBlocks}}
    \ {p \in [product_name : ProductNames, brands : ProductBrands,
              code : {None, Some(barcode)}, nutriments : Nutriments,
              nutriments_estimated : {None} \cup {Some(e) : e \in EstimatedBlocks}] :
          /\ (p.product_name # PlainName \/ p.brands # PlainBrand)
          /\ \/ p.nutriments_estimated # None
             \/ p.nutriments \notin {Block(None, None, None, None),
                                     Block(Some(1500), Some(1500), Some(1500), Some(1500))}}

\* one (nutrientId, value) row of a secondary-source food: a positive
\* protein, a protein below 0.005, a zero energy, a row without id and value
UsdaNutrients ==
    {[nutrientId |-> Some(1003), value |-> Some(3500)],
     [nutrientId |-> Some(1003), value |-> Some(4)],
     [nutrientId |-> Some(1008), value |-> Some(0)],
     [nutrientId |-> None, value |-> None]}

RECURSIVE SeqsUpTo(_, _)
SeqsUpTo(S, n) ==
    IF n = 0 THEN {<< >>}
    ELSE LET shorter == SeqsUpTo(S, n - 1)
         IN  shorter \cup {Append(q, x) : q \in shorter, x \in S}

UsdaFoods == {[foodNutrients |-> ns] : ns \in SeqsUpTo(UsdaNutrients, MaxNutrients)}

\* scale readings in tenths of a gram: missing value, zero, negative,
\* 0.4 g, 250 g, 250.4 g
ScaleValues == {None, Some(0), Some(-50), Some(4), Some(2500), Some(2504)}

(***************************************************************************)
(* Pure functions of the pipeline.                                         *)
(***************************************************************************)
\* the first loop of build_food_suggestion: every key from the measured
\* block, zero when the key is missing
MeasuredFill(product) ==
    [k \in SparkyKeys |->
        LET val == product.nutriments[OffKeyOf(k)]
        IN  IF ~IsNone(val) THEN Round2(Val(val)) ELSE 0]

\* the second loop: a key still zero takes a strictly positive estimate
EstimatedFill(nutrients, estimated) ==
    [k \in SparkyKeys |->
        LET val == estimated[OffKeyOf(k)]
        IN  IF nutrients[k] = 0 /\ ~IsNone(val) /\ Val(val) > 0
            THEN Round2(Val(val))
            ELSE nutrients[k]]

\* the candidate, its barcode read from a key the product does not have
build_food_suggestion_wrong(product) ==
    LET raw_name == IF IsNone(product.product_name) \/ Val(product.product_name) = << >>
                    THEN UnknownProduct
                    ELSE Val(product.product_name)
        raw_brand == product.brands
        measured == MeasuredFill(product)
        \* "if estimated:" skips a missing and an empty block
        nutrients == IF IsNone(product.nutriments_estimated)
                     THEN measured
                     ELSE EstimatedFill(measured, Val(product.nutriments_estimated))
    IN  [name |-> IF IsUpper(raw_name) THEN Title(raw_name) ELSE raw_name,
         brand |-> IF IsUpper(raw_brand) THEN Title(raw_brand) ELSE raw_brand,
         barcode |-> << >>,
         custom_nutrients |-> {}]
        @@ nutrients

build_food_suggestion(product) ==
    LET raw_name == IF IsNone(product.product_name) \/ Val(product.product_name) = << >>
                    THEN UnknownProduct
                    ELSE Val(product.product_name)
        raw_brand == product.brands
        measured == MeasuredFill(product)
        \* "if estimated:" skips a missing and an empty block
        nutrients == IF IsNone(product.nutriments_estimated)
                     THEN measured
                     ELSE EstimatedFill(measured, Val(product.nutriments_estimated))
    IN  [name |-> IF IsUpper(raw_name) THEN Title(raw_name) ELSE raw_name,
         brand |-> IF IsUpper(raw_brand) THEN Title(raw_brand) ELSE raw_brand,
         barcode |-> IF IsNone(product.code) THEN << >> ELSE Val(product.code),
         custom_nutrients |-> {}]
        @@ nutrients

is_nutrition_complete(suggestion) == \E k \in CoreMacros : suggestion[k] > 0

\* one round of the loop of enrich_from_usda
EnrichStepWrong(suggestion, nutrient) ==
    LET id == nutrient.nutrientId
    IN  IF /\ ~IsNone(id)
           /\ Val(id) \in DOMAIN USDA_NUTRIENT_MAP
           /\ ~IsNone(nutrient.value)
           /\ Val(nutrient.value) > 0
        THEN [suggestion EXCEPT ![USDA_NUTRIENT_MAP[Val(id)]] = Round2(Val(nutrient.value))]
        ELSE suggestion

EnrichStep(suggestion, nutrient) ==
    LET id == nutrient.nutrientId
    IN  IF /\ ~IsNone(id)
           /\ Val(id) \in DOMAIN USDA_NUTRIENT_MAP
           /\ suggestion[USDA_NUTRIENT_MAP[Val(id)]] = 0
           /\ ~IsNone(nutrient.value)
           /\ Val(nutrient.value) > 0
        THEN [suggestion EXCEPT ![USDA_NUTRIENT_MAP[Val(id)]] = Round2(Val(nutrient.value))]
        ELSE suggestion

RECURSIVE EnrichLoop(_, _)
EnrichLoop(suggestion, nutrients) ==
    IF nutrients = << >> THEN suggestion
    ELSE EnrichLoop(EnrichStep(suggestion, Head(nutrients)), Tail(nutrients))

enrich_from_usda(suggestion, usda_food) == EnrichLoop(suggestion, usda_food.foodNutrients)

\* the name and brand process_barcode reads off the product for its queries
QueryName(product) ==
    IF IsNone(product.product_name) THEN QuestionMark ELSE Val(product.product_name)
QueryBrand(product) == product.brands

\* the three queries of the "or" chain, in the order they are tried
UsdaQueriesWrong(barcode, product) ==
    LET name == QueryName(product)
        brand == QueryBrand(product)
    IN  <<name,
          IF brand # << >> THEN brand \o <<" ">> \o name ELSE name,
          barcode>>

UsdaQueries(barcode, product) ==
    LET name == QueryName(product)
        brand == QueryBrand(product)
    IN  <<barcode,
          IF brand # << >> THEN brand \o <<" ">> \o name ELSE name,
          name>>

\* the review flag of process_barcode
FlagForReviewWrong(suggestion) ==
    IF ~is_nutrition_complete(suggestion)
    THEN [suggestion EXCEPT !.custom_nutrients = @ \cup {"needs_review"}]
    ELSE suggestion

FlagForReview(suggestion) ==
    IF ~is_nutrition_complete(suggestion)
    THEN [suggestion EXCEPT !.name = @ \o ReviewMarker,
                            !.custom_nutrients = @ \cup {"needs_review"}]
    ELSE suggestion

\* quantity of log_food_entry, in thousandths of a serving
Quantity(weight_grams) ==
    IF ~IsNone(weight_grams) THEN Round2(Val(weight_grams)) ELSE 1000

(***************************************************************************)
(* The meal type of a scan.  A time of day is its number of seconds since  *)
(* midnight; the window strings are parsed as the code parses them.        *)
(***************************************************************************)
TimeOf(h, m, s) == h * 3600 + m * 60 + s

Digit(c) ==
    CASE c = "0" -> 0 [] c = "1" -> 1 [] c = "2" -> 2 [] c = "3" -> 3 [] c = "4" -> 4
      [] c = "5" -> 5 [] c = "6" -> 6 [] c = "7" -> 7 [] c = "8" -> 8 [] c = "9" -> 9

RECURSIVE ParseInt(_)
ParseInt(s) ==
    IF s = << >> THEN 0
    ELSE ParseInt(SubSeq(s, 1, Len(s) - 1)) * 10 + Digit(s[Len(s)])

\* str.strip(): leading and trailing blanks removed
RECURSIVE Strip(_)
Strip(s) ==
    IF s = << >> THEN s
    ELSE IF Head(s) = " " THEN Strip(Tail(s))
    ELSE IF s[Len(s)] = " " THEN Strip(SubSeq(s, 1, Len(s) - 1))
    ELSE s

FirstIndex(s, c) == CHOOSE i \in 1..Len(s) : s[i] = c /\ \A j \in 1..(i - 1) : s[j] # c

\* window.split("-") of a window with one dash
SplitWindow(window) ==
    LET i == FirstIndex(window, "-")
    IN  <<SubSeq(window, 1, i - 1), SubSeq(window, i + 1, Len(window))>>

\* datetime.strptime(text, "%H:%M").time()
ParseTime(text) ==
    LET i == FirstIndex(text, ":")
    IN  TimeOf(ParseInt(SubSeq(text, 1, i - 1)), ParseInt(SubSeq(text, i + 1, Len(text))), 0)

\* the three windows of MEAL_WINDOWS in the order of the dict
MealWindows(breakfast, lunch, dinner) ==
    <<[meal |-> "Breakfast", window |-> breakfast],
      [meal |-> "Lunch", window |-> lunch],
      [meal |-> "Dinner", window |-> dinner]>>

DefaultWindows ==
    MealWindows(
        <<"0", "5", ":", "0", "0", "-", "1", "0", ":", "0", "0">>, 
        <<"1", "1", ":", "0", "0", "-", "1", "3", ":", "0", "0">>, 
        <<"1", "4", ":", "0", "0", "-", "1", "6", ":", "0", "0">>)

\* the defaults; overlapping windows; a window inside a later one; a window
\* that ends before it starts and an empty one; blanks around the times
WindowConfigs ==
    {DefaultWindows,
     MealWindows(
        <<"0", "5", ":", "0", "0", "-", "1", "2", ":", "0", "0">>, 
        <<"1", "1", ":", "0", "0", "-", "1", "3", ":", "0", "0">>, 
        <<"1", "2", ":", "3", "0", "-", "1", "6", ":", "0", "0">>),
     MealWindows(
        <<"1", "1", ":", "0", "0", "-", "1", "3", ":", "0", "0">>, 
        <<"0", "5", ":", "0", "0", "-", "1", "6", ":", "0", "0">>, 
        <<"1", "4", ":", "0", "0", "-", "1", "6", ":", "0", "0">>),
     MealWindows(
        <<"2", "2", ":", "0", "0", "-", "0", "2", ":", "0", "0">>, 
        <<"1", "0", ":", "0", "0", "-", "1", "0", ":", "0", "0">>, 
        <<"1", "4", ":", "0", "0", "-", "1", "6", ":", "0", "0">>),
     MealWindows(
        <<" ", "0", "5", ":", "0", "0", " ", "-", " ", "1", "0", ":", "0", "0", " ">>, 
        <<"1", "1", ":", "0", "0", " ", "-", "1", "3", ":", "0", "0">>, 
        <<"9", ":", "5", "9", "-", "2", "3", ":", "0", "0">>)}

\* readings of the clock: starts and ends of windows, and times inside,
\* between and after them
Times ==
    {TimeOf(4, 59, 59), TimeOf(5, 0, 0), TimeOf(9, 59, 59), TimeOf(10, 0, 0),
     TimeOf(11, 30, 0), TimeOf(12, 45, 0), TimeOf(13, 0, 0), TimeOf(15, 0, 0),
     TimeOf(23, 0, 0)}

\* the meal_type argument of process_barcode
MealOverrides == {None, Some("Dinner"), Some("Snacks"), Some("")}

RECURSIVE current_meal_type_wrong(_, _)
current_meal_type_wrong(windows, t) ==
    IF windows = << >> THEN "Snack"
    ELSE LET parts == SplitWindow(Head(windows).window)
             start == ParseTime(Strip(parts[1]))
             end == ParseTime(Strip(parts[2]))
         IN  IF start <= t /\ t <= end THEN Head(windows).meal
             ELSE current_meal_type_wrong(Tail(windows), t)

RECURSIVE current_meal_type(_, _)
current_meal_type(windows, t) ==
    IF windows = << >> THEN "Snack"
    ELSE LET parts == SplitWindow(Head(windows).window)
             start == ParseTime(Strip(parts[1]))
             end == ParseTime(Strip(parts[2]))
         IN  IF start <= t /\ t < end THEN Head(windows).meal
             ELSE current_meal_type(Tail(windows), t)

\* "if meal_type is None: meal_type = current_meal_type()"
ResolveMealType(override, windows, t) ==
    IF IsNone(override) THEN current_meal_type(windows, t) ELSE Val(override)

(***************************************************************************)
(* Responses of the remote calls.  A call that raises (connection error,   *)
(* timeout) is the response Raised.                                        *)
(***************************************************************************)
Raised == [raised |-> TRUE]

\* GET /api/foods/openfoodfacts/barcode/{barcode}
OffResponses(products) ==
    {Raised, [raised |-> FALSE, status_code |-> 500]}
    \cup {[raised |-> FALSE, status_code |-> 200, status |-> 0, product |-> None],
          [raised |-> FALSE, status_code |-> 200, status |-> 1, product |-> None]}
    \cup {[raised |-> FALSE, status_code |-> 200, status |-> 1, product |-> Some(p)] :
             p \in products}

\* GET /api/food-integration/usda/search
UsdaResponses ==
    {Raised, [raised |-> FALSE, status_code |-> 500],
     [raised |-> FALSE, status_code |-> 200, foods |-> << >>]}
    \cup {[raised |-> FALSE, status_code |-> 200, foods |-> <<f>>] : f \in UsdaFoods}

\* POST /api/foods, answered for the catalog entry the service holds for the
\* candidate: the whole record, a record lacking the id, lacking the
\* default variant, with a variant lacking its id, or with a null variant
CreateResponses(entry) ==
    LET full == [tag |-> "dict", id |-> Some(entry.variant)]
    IN  {[raised |-> FALSE, status_code |-> 200, id |-> Some(entry.id), default_variant |-> full],
         [raised |-> FALSE, status_code |-> 201, id |-> Some(entry.id), default_variant |-> full],
         [raised |-> FALSE, status_code |-> 201, id |-> None, default_variant |-> full],
         [raised |-> FALSE, status_code |-> 201, id |-> Some(entry.id),
          default_variant |-> [tag |-> "missing", id |-> None]],
         [raised |-> FALSE, status_code |-> 201, id |-> Some(entry.id),
          default_variant |-> [tag |-> "dict", id |-> None]],
         [raised |-> FALSE, status_code |-> 201, id |-> Some(entry.id),
          default_variant |-> [tag |-> "null", id |-> None]]}

\* GET SCALE_URL
ScaleResponses ==
    {Raised, [raised |-> FALSE, status_code |-> 500]}
    \cup {[raised |-> FALSE, status_code |-> 200, value |-> v] : v \in ScaleValues}

\* POST /api/food-entries
DiaryResponses == {Raised} \cup {[raised |-> FALSE, status_code |-> sc] : sc \in {200, 201, 500}}

(***************************************************************************)
(* The API helpers, as functions of the response they receive.             *)
(***************************************************************************)
lookup_barcode(resp) ==
    IF resp.status_code # 200 THEN None
    ELSE IF resp.status # 1 \/ IsNone(resp.product) THEN None
    ELSE resp.product

lookup_usda(resp) ==
    IF resp.status_code # 200 THEN None
    ELSE IF resp.foods # << >> THEN Some(resp.foods[1]) ELSE None

\* data.get("default_variant", {}).get("id") raises on a null variant
CreateRaises(resp) ==
    resp.raised \/ (resp.status_code \in {200, 201} /\ resp.default_variant.tag = "null")

create_or_get_food(resp) ==
    IF resp.status_code \notin {200, 201} THEN <<None, None>>
    ELSE <<resp.id, resp.default_variant.id>>

\* "if not food_id or not variant_id: return", negated
IdentityUsableWrong(food_id, variant_id) == ~IsNone(food_id)

IdentityUsable(food_id, variant_id) == ~IsNone(food_id) /\ ~IsNone(variant_id)

\* every exception of the read is caught; a missing value reads as 0
get_scale_weight_wrong(resp) ==
    IF resp.raised THEN None
    ELSE IF resp.status_code = 200
         THEN LET w == IF IsNone(resp.value) THEN 0 ELSE Val(resp.value)
              IN  Some(w)
         ELSE None

get_scale_weight(resp) ==
    IF resp.raised THEN None
    ELSE IF resp.status_code = 200
         THEN LET w == IF IsNone(resp.value) THEN 0 ELSE Val(resp.value)
              IN  IF w > 0 THEN Some(w) ELSE None
         ELSE None

(***************************************************************************)
(* The catalog service: create-or-reuse keyed by the candidate's barcode.  *)
(***************************************************************************)
CatalogKeys(cat) == {cat[i].barcode : i \in 1..Len(cat)}

CatalogFind(cat, key) == cat[CHOOSE i \in 1..Len(cat) : cat[i].barcode = key]

CatalogCreateOrReuse(cat, key) ==
    IF key \in CatalogKeys(cat) THEN cat
    ELSE Append(cat, [barcode |-> key, id |-> Len(cat) + 1, variant |-> Len(cat) + 101])

(***************************************************************************)
(* State.                                                                  *)
(***************************************************************************)
VARIABLES
    usdaProviderId, \* USDA_PROVIDER_ID is set
    scaleUrl,       \* SCALE_URL is set
    buffer,         \* read_barcodes_evdev: the digits keyed so far
    pc,             \* where the single thread of control stands
    barcode,        \* process_barcode: its argument
    product,        \* process_barcode: the primary lookup's product
    suggestion,     \* process_barcode: the food candidate
    usda_food,      \* process_barcode: the secondary lookup's result
    food_id,        \* process_barcode: the identity the catalog returned
    variant_id,
    weight,         \* process_barcode: the scale reading
    calls,          \* the requests this run has sent, in order
    outcome,        \* how the run ended
    catalog,        \* the catalog service's entries, in creation order
    offCodes,       \* primary source: whether a barcode's record carries its code
    identities,     \* every (scanned barcode, food id, variant id) returned so far
    scans,          \* barcodes handed to the pipeline so far
    mealWindows,    \* MEAL_WINDOWS
    now,            \* the local time of day at the scan
    meal_override,  \* process_barcode: the meal_type its caller passes
    meal_type,      \* process_barcode: the meal type of the run
    scannerDevice,  \* SCANNER_DEVICE is set
    deviceState,    \* what opening and grabbing the scanner device meets
    source,         \* the input source main has chosen
    pending,        \* events the device has emitted and read_loop has not yet yielded
    consumed,       \* events read_loop has yielded so far, in order
    world,          \* what the remote services answer to one scan, for either variant
    runs            \* what each variant of the pipeline made of that scan

vars == <<usdaProviderId, scaleUrl, buffer, pc, barcode, product, suggestion, usda_food,
          food_id, variant_id, weight, calls, outcome, catalog, offCodes, identities, scans,
          mealWindows, now, meal_override, meal_type, scannerDevice, deviceState, source,
          pending, consumed, world, runs>>

config == <<usdaProviderId, scaleUrl>>
\* what no step of a pipeline run changes: the windows, the clock's reading
\* at the scan, the caller's override, the device, the input source and
\* the device's events
outer == <<mealWindows, now, meal_override, scannerDevice, deviceState, source,
           pending, consumed, world, runs>>
remote == <<catalog, offCodes, identities>>
locals == <<barcode, product, suggestion, usda_food, food_id, variant_id, weight>>

CallsOf(op) == SelectSeq(calls, LAMBDA c : c.op = op)

Init ==
    /\ usdaProviderId \in BOOLEAN
    /\ scaleUrl \in BOOLEAN
    /\ buffer = << >>
    /\ pc = "read"
    /\ barcode = << >>
    /\ product = None
    /\ suggestion = None
    /\ usda_food = None
    /\ food_id = None
    /\ variant_id = None
    /\ weight = None
    /\ calls = << >>
    /\ outcome = "idle"
    /\ catalog = << >>
    /\ offCodes = [b \in Barcodes |-> "unknown"]
    /\ identities = << >>
    /\ scans = 0
    /\ mealWindows = DefaultWindows
    /\ now \in {TimeOf(9, 59, 59), TimeOf(10, 0, 0)}
    /\ meal_override = None
    /\ meal_type = None
    /\ scannerDevice = FALSE
    /\ deviceState = "ready"
    /\ source = "evdev"
    /\ pending = << >>
    /\ consumed = << >>
    /\ world = None
    /\ runs = None

(***************************************************************************)
(* read_barcodes_evdev: the key-down events of the read loop.  Events that *)
(* are no key-down of a digit or of Enter leave the state as it is.        *)
(***************************************************************************)
IsPrefix(p, q) == Len(p) <= Len(q) /\ SubSeq(q, 1, Len(p)) = p

\* a key of KEY_MAP: buffer.append
KeyDigit ==
    /\ pc = "read"
    /\ source = "evdev"
    /\ scans < MaxScans
    /\ \E d \in {"1", "2"} :
          /\ \E b \in Barcodes : IsPrefix(Append(buffer, d), b)
          /\ buffer' = Append(buffer, d)
    /\ UNCHANGED <<config, outer, remote, locals, pc, calls, outcome, scans, meal_type>>

\* KEY_ENTER: the buffer is joined and cleared, and a non-empty barcode
\* enters process_barcode, which runs up to its first request
KeyEnter ==
    /\ pc = "read"
    /\ source = "evdev"
    /\ scans < MaxScans
    /\ buffer' = << >>
    /\ IF buffer # << >>
       THEN /\ barcode' = buffer
            /\ meal_type' = Some(ResolveMealType(meal_override, mealWindows, now))
            /\ pc' = "lookup"
            /\ calls' = << >>
            /\ outcome' = "running"
            /\ scans' = scans + 1
       ELSE UNCHANGED <<barcode, meal_type, pc, calls, outcome, scans>>
    /\ UNCHANGED <<config, outer, remote, product, suggestion, usda_food, food_id, variant_id,
                   weight>>

(***************************************************************************)
(* process_barcode, one action per request: the request, the helper's      *)
(* reading of the response, and the code up to the next request.  Each     *)
(* request is written to calls with what came back.                        *)
(***************************************************************************)
\* an exception no handler catches leaves process_barcode, the read loop
\* and main: a request that raised, or a response the helper cannot read
Crash(reason) ==
    /\ pc' = "crashed"
    /\ outcome' = reason

EmptyProduct ==
    [product_name |-> None, brands |-> << >>, code |-> None,
     nutriments |-> Block(None, None, None, None), nutriments_estimated |-> None]

\* "product = lookup_barcode(barcode); if not product: return": the product
\* the run goes on with, None when it returns
FoundProductWrong(found) == IF IsNone(found) THEN Some(EmptyProduct) ELSE found

FoundProduct(found) == found

\* the queries of the "or" chain need a provider id; without one every
\* lookup_usda returns None at once
AfterBuild(s) ==
    IF is_nutrition_complete(s) \/ ~usdaProviderId
    THEN /\ suggestion' = Some(FlagForReview(s))
         /\ pc' = "create"
    ELSE /\ suggestion' = Some(s)
         /\ pc' = "usda"

LookupBarcode ==
    /\ pc = "lookup"
    /\ \E hasCode \in IF offCodes[barcode] = "unknown" THEN BOOLEAN
                      ELSE {offCodes[barcode] = "present"} :
       \E resp \in OffResponses(ProductsFor(barcode, hasCode)) :
          IF resp.raised
          THEN /\ calls' = Append(calls, [op |-> "off", barcode |-> barcode,
                                          raised |-> TRUE, found |-> FALSE])
               /\ Crash("transport_error")
               /\ UNCHANGED <<product, suggestion, offCodes>>
          ELSE LET found == lookup_barcode(resp)
                   p == FoundProduct(found)
               IN  /\ calls' = Append(calls, [op |-> "off", barcode |-> barcode,
                                              raised |-> FALSE, found |-> ~IsNone(found)])
                   /\ IF IsNone(p)
                      THEN /\ pc' = "done"
                           /\ outcome' = "not_found"
                           /\ UNCHANGED <<product, suggestion, offCodes>>
                      ELSE /\ product' = p
                           /\ offCodes' = IF IsNone(found) THEN offCodes
                                          ELSE [offCodes EXCEPT ![barcode] =
                                                   IF hasCode THEN "present" ELSE "missing"]
                           /\ AfterBuild(build_food_suggestion(Val(p)))
                           /\ UNCHANGED outcome
    /\ UNCHANGED <<config, outer, buffer, barcode, usda_food, food_id, variant_id, weight,
                   catalog, identities, scans, meal_type>>

LookupUsda ==
    /\ pc = "usda"
    /\ LET n == Len(CallsOf("usda")) + 1
           queries == UsdaQueries(barcode, Val(product))
       IN  \E resp \in UsdaResponses :
              IF resp.raised
              THEN /\ calls' = Append(calls, [op |-> "usda", query |-> queries[n],
                                              raised |-> TRUE, found |-> FALSE])
                   /\ Crash("transport_error")
                   /\ UNCHANGED <<suggestion, usda_food>>
              ELSE LET found == lookup_usda(resp)
                   IN  /\ calls' = Append(calls, [op |-> "usda", query |-> queries[n],
                                                  raised |-> FALSE, found |-> ~IsNone(found)])
                       /\ IF ~IsNone(found)
                          THEN /\ usda_food' = found
                               /\ suggestion' = Some(FlagForReview(
                                      enrich_from_usda(Val(suggestion), Val(found))))
                               /\ pc' = "create"
                               /\ UNCHANGED outcome
                          ELSE IF n < Len(queries)
                          THEN UNCHANGED <<pc, suggestion, usda_food, outcome>>
                          ELSE /\ suggestion' = Some(FlagForReview(Val(suggestion)))
                               /\ pc' = "create"
                               /\ UNCHANGED <<usda_food, outcome>>
    /\ UNCHANGED <<config, outer, remote, buffer, barcode, product, food_id, variant_id, weight,
                   scans, meal_type>>

\* the create request as it is written to calls: the candidate's key, name
\* and auxiliary map, and what the response held
CreateCall(s, raised, ok, has_id, has_variant) ==
    [op |-> "create", barcode |-> s.barcode, name |-> s.name,
     custom_nutrients |-> s.custom_nutrients,
     raised |-> raised, ok |-> ok, has_id |-> has_id, has_variant |-> has_variant]

\* after the catalog call the product, the candidate and the secondary
\* food are read by log lines only
CreateOrGetFood ==
    /\ pc = "create"
    /\ product' = None
    /\ suggestion' = None
    /\ usda_food' = None
    /\ \/ \* the request fails in transit, or the service refuses it
          /\ \E resp \in {Raised, [raised |-> FALSE, status_code |-> 500]} :
                IF resp.raised
                THEN /\ calls' = Append(calls, CreateCall(Val(suggestion), TRUE, FALSE,
                                                          FALSE, FALSE))
                     /\ Crash("transport_error")
                ELSE /\ calls' = Append(calls, CreateCall(Val(suggestion), FALSE, FALSE,
                                                          FALSE, FALSE))
                     /\ pc' = "done"
                     /\ outcome' = "create_failed"
          /\ UNCHANGED <<catalog, identities, food_id, variant_id, weight>>
       \/ \* the service creates or reuses the entry and answers
          LET cat == CatalogCreateOrReuse(catalog, Val(suggestion).barcode)
              entry == CatalogFind(cat, Val(suggestion).barcode)
          IN  /\ catalog' = cat
              /\ \E resp \in CreateResponses(entry) :
                    /\ calls' = Append(calls, CreateCall(Val(suggestion), FALSE, TRUE,
                                          ~IsNone(resp.id),
                                          ~IsNone(resp.default_variant.id)))
                    /\ IF CreateRaises(resp)
                       THEN /\ Crash("bad_response")
                            /\ UNCHANGED <<identities, food_id, variant_id, weight>>
                       ELSE LET ids == create_or_get_food(resp)
                            IN  IF IdentityUsable(ids[1], ids[2])
                                THEN /\ food_id' = ids[1]
                                     /\ variant_id' = ids[2]
                                     /\ identities' = Append(identities,
                                           [barcode |-> barcode, food_id |-> ids[1],
                                            variant_id |-> ids[2]])
                                     /\ pc' = IF scaleUrl THEN "scale" ELSE "log"
                                     /\ UNCHANGED <<weight, outcome>>
                                ELSE /\ pc' = "done"
                                     /\ outcome' = "create_failed"
                                     /\ UNCHANGED <<identities, food_id, variant_id, weight>>
    /\ UNCHANGED <<config, outer, buffer, barcode, offCodes, scans, meal_type>>

\* get_scale_weight with SCALE_URL set; without it the function returns
\* None before any request and the run stands at the diary request
GetScaleWeight ==
    /\ pc = "scale"
    /\ \E resp \in ScaleResponses :
          /\ calls' = Append(calls, [op |-> "scale", resp |-> resp])
          /\ weight' = get_scale_weight(resp)
    /\ pc' = "log"
    /\ UNCHANGED <<config, outer, remote, buffer, barcode, product, suggestion, usda_food,
                   food_id, variant_id, outcome, scans, meal_type>>

\* the diary request, sent again after a non-success response
LogFoodEntryWrong ==
    /\ pc = "log"
    /\ calls' = Append(calls, [op |-> "diary", food_id |-> food_id,
                               variant_id |-> variant_id, meal_type |-> Val(meal_type),
                               quantity |-> Quantity(weight)])
    /\ \E resp \in DiaryResponses :
          IF resp.raised
          THEN Crash("transport_error")
          ELSE IF resp.status_code \in {200, 201}
          THEN /\ pc' = "done"
               /\ outcome' = "logged"
          ELSE UNCHANGED <<pc, outcome>>
    /\ UNCHANGED <<config, outer, remote, buffer, locals, scans, meal_type>>

LogFoodEntry ==
    /\ pc = "log"
    /\ calls' = Append(calls, [op |-> "diary", food_id |-> food_id,
                               variant_id |-> variant_id, meal_type |-> Val(meal_type),
                               quantity |-> Quantity(weight)])
    /\ \E resp \in DiaryResponses :
          IF resp.raised
          THEN Crash("transport_error")
          ELSE /\ pc' = "done"
               /\ outcome' = IF resp.status_code \in {200, 201} THEN "logged"
                             ELSE "log_failed"
    /\ UNCHANGED <<config, outer, remote, buffer, locals, scans, meal_type>>

\* process_barcode returns to the read loop
Return ==
    /\ pc = "done"
    /\ pc' = "read"
    /\ barcode' = << >>
    /\ food_id' = None
    /\ variant_id' = None
    /\ weight' = None
    /\ meal_type' = None
    /\ calls' = << >>
    /\ outcome' = "idle"
    /\ UNCHANGED <<config, outer, remote, buffer, product, suggestion, usda_food, scans>>

Next ==
    \/ KeyDigit
    \/ KeyEnter
    \/ LookupBarcode
    \/ LookupUsda
    \/ CreateOrGetFood
    \/ GetScaleWeight
    \/ LogFoodEntry
    \/ Return

Spec == Init /\ [][Next]_vars

(***************************************************************************)
(* log_food_entry on its own: any optional weight, any identity.           *)
(***************************************************************************)
LoggerWeights == {None} \cup {Some(w) : w \in {0, 4, 996, 1000, 2500, 2504, 12346}}

InitLogger ==
    /\ usdaProviderId \in BOOLEAN
    /\ scaleUrl \in BOOLEAN
    /\ buffer = << >>
    /\ pc = "log"
    /\ barcode = <<"1">>
    /\ product = None
    /\ suggestion = None
    /\ usda_food = None
    /\ food_id \in {Some(1), Some(2)}
    /\ variant_id \in {Some(101), Some(102)}
    /\ weight \in LoggerWeights
    /\ calls = << >>
    /\ outcome = "running"
    /\ catalog = << >>
    /\ offCodes = [b \in Barcodes |-> "unknown"]
    /\ identities = << >>
    /\ scans = MaxScans
    /\ mealWindows = DefaultWindows
    /\ now = TimeOf(9, 59, 59)
    /\ meal_override = None
    /\ meal_type = Some("Breakfast")
    /\ scannerDevice = FALSE
    /\ deviceState = "ready"
    /\ source = "evdev"
    /\ pending = << >>
    /\ consumed = << >>
    /\ world = None
    /\ runs = None

NextLogger == LogFoodEntry

SpecLogger == InitLogger /\ [][NextLogger]_vars

(***************************************************************************)
(* process_barcode entered by a caller that may pass a meal type, under    *)
(* any configuration of the windows and any reading of the clock.          *)
(***************************************************************************)
InitMeal ==
    /\ usdaProviderId = FALSE
    /\ scaleUrl = FALSE
    /\ buffer = << >>
    /\ pc = "call"
    /\ barcode = << >>
    /\ product = None
    /\ suggestion = None
    /\ usda_food = None
    /\ food_id = None
    /\ variant_id = None
    /\ weight = None
    /\ calls = << >>
    /\ outcome = "idle"
    /\ catalog = << >>
    /\ offCodes = [b \in Barcodes |-> "unknown"]
    /\ identities = << >>
    /\ scans = 0
    /\ mealWindows \in WindowConfigs
    /\ now \in Times
    /\ meal_override \in MealOverrides
    /\ meal_type = None
    /\ scannerDevice = FALSE
    /\ deviceState = "ready"
    /\ source = "evdev"
    /\ pending = << >>
    /\ consumed = << >>
    /\ world = None
    /\ runs = None

\* process_barcode(barcode, meal_type) up to its first request
ProcessBarcodeCall ==
    /\ pc = "call"
    /\ \E b \in Barcodes : barcode' = b
    /\ meal_type' = Some(ResolveMealType(meal_override, mealWindows, now))
    /\ pc' = "lookup"
    /\ calls' = << >>
    /\ outcome' = "running"
    /\ scans' = scans + 1
    /\ UNCHANGED <<config, outer, remote, buffer, product, suggestion, usda_food, food_id,
                   variant_id, weight>>

NextMeal == ProcessBarcodeCall

SpecMeal == InitMeal /\ [][NextMeal]_vars

(***************************************************************************)
(* main: the choice of the input source, and the reader of typed lines.    *)
(* The scanner device is ready; absent (no event device, or none at the    *)
(* configured path); denied (no permission to open it); unnamed (present,  *)
(* its name holding none of "barcode", "scanner", "hid"); busy (it opens,  *)
(* and another process holds the grab).                                    *)
(***************************************************************************)
DeviceStates == {"ready", "absent", "denied", "unnamed", "busy"}

\* find_scanner_device: the path found, or the exception that leaves it
find_scanner_device(state) ==
    CASE state \in {"ready", "busy"} -> "path"
      [] state = "denied" -> "PermissionError"
      [] state \in {"absent", "unnamed"} -> "SystemExit"

\* the first three lines of read_barcodes_evdev: the device is opened and
\* grabbed, or an exception leaves the function
OpenDevice(state) ==
    CASE state \in {"ready", "unnamed"} -> "listening"
      [] state = "absent" -> "FileNotFoundError"
      [] state = "denied" -> "PermissionError"
      [] state = "busy" -> "OSError"

InitStartup ==
    /\ usdaProviderId = FALSE
    /\ scaleUrl \in BOOLEAN
    /\ buffer = << >>
    /\ pc = "main"
    /\ barcode = << >>
    /\ product = None
    /\ suggestion = None
    /\ usda_food = None
    /\ food_id = None
    /\ variant_id = None
    /\ weight = None
    /\ calls = << >>
    /\ outcome = "idle"
    /\ catalog = << >>
    /\ offCodes = [b \in Barcodes |-> "unknown"]
    /\ identities = << >>
    /\ scans = 0
    /\ mealWindows = DefaultWindows
    /\ now = TimeOf(9, 59, 59)
    /\ meal_override = None
    /\ meal_type = None
    /\ scannerDevice \in BOOLEAN
    /\ deviceState \in DeviceStates
    /\ source = "none"
    /\ pending = << >>
    /\ consumed = << >>
    /\ world = None
    /\ runs = None

\* main, up to the first read of the chosen source
Main ==
    /\ pc = "main"
    /\ LET found == IF scannerDevice THEN "path" ELSE find_scanner_device(deviceState)
       IN  IF found \in {"FileNotFoundError", "PermissionError", "SystemExit"}
           THEN /\ source' = "stdin"
                /\ pc' = "read"
                /\ UNCHANGED outcome
           ELSE IF OpenDevice(deviceState) = "listening"
           THEN /\ source' = "evdev"
                /\ pc' = "read"
                /\ UNCHANGED outcome
           ELSE /\ source' = "evdev"
                /\ Crash("device_error")
    /\ UNCHANGED <<config, remote, locals, buffer, calls, scans, mealWindows, now,
                   meal_override, meal_type, scannerDevice, deviceState, pending, consumed,
                   world, runs>>

\* lines typed at the prompt: empty, blank, a barcode, a barcode after a blank
StdinLines == {<< >>, <<" ">>} \cup Barcodes \cup {<<" ">> \o b : b \in Barcodes}

\* read_barcodes_stdin: one line of input, stripped, and a non-empty one
\* enters process_barcode, which runs up to its first request
ReadLine ==
    /\ pc = "read"
    /\ source = "stdin"
    /\ scans < MaxScans
    /\ \E text \in StdinLines :
          LET line == Strip(text)
          IN  IF line # << >>
              THEN /\ barcode' = line
                   /\ meal_type' = Some(ResolveMealType(meal_override, mealWindows, now))
                   /\ pc' = "lookup"
                   /\ calls' = << >>
                   /\ outcome' = "running"
                   /\ scans' = scans + 1
              ELSE UNCHANGED <<barcode, meal_type, pc, calls, outcome, scans>>
    /\ UNCHANGED <<config, outer, remote, buffer, product, suggestion, usda_food, food_id,
                   variant_id, weight>>

\* the end of the input: EOFError leaves the loop and main returns
StdinEof ==
    /\ pc = "read"
    /\ source = "stdin"
    /\ pc' = "exited"
    /\ UNCHANGED <<config, outer, remote, locals, buffer, calls, outcome, scans, meal_type>>

NextStartup ==
    \/ Main
    \/ ReadLine
    \/ StdinEof
    \/ KeyDigit
    \/ KeyEnter
    \/ LookupBarcode
    \/ CreateOrGetFood
    \/ GetScaleWeight
    \/ LogFoodEntry
    \/ Return

SpecStartup == InitStartup /\ [][NextStartup]_vars

(***************************************************************************)
(* read_barcodes_evdev with the device's event queue.  The scanner emits   *)
(* events at any time, also while a run is in progress; read_loop yields   *)
(* them one by one, in order, when the loop asks for the next.  In the     *)
(* actions KeyDigit and KeyEnter above an event is read as it is emitted.  *)
(***************************************************************************)
\* key-down of a digit, key-down of Enter, any other event
DeviceEvents == {"1", "2", "ENTER", "other"}

\* the digits of a sequence of events after its last Enter
RECURSIVE DigitsAfterEnter(_)
DigitsAfterEnter(events) ==
    IF events = << >> \/ events[Len(events)] = "ENTER" THEN << >>
    ELSE LET before == DigitsAfterEnter(SubSeq(events, 1, Len(events) - 1))
             k == events[Len(events)]
         IN  IF k = "other" THEN before ELSE Append(before, k)

InitReader ==
    /\ usdaProviderId = FALSE
    /\ scaleUrl = FALSE
    /\ buffer = << >>
    /\ pc = "read"
    /\ barcode = << >>
    /\ product = None
    /\ suggestion = None
    /\ usda_food = None
    /\ food_id = None
    /\ variant_id = None
    /\ weight = None
    /\ calls = << >>
    /\ outcome = "idle"
    /\ catalog = << >>
    /\ offCodes = [b \in Barcodes |-> "unknown"]
    /\ identities = << >>
    /\ scans = 0
    /\ mealWindows = DefaultWindows
    /\ now = TimeOf(9, 59, 59)
    /\ meal_override = None
    /\ meal_type = None
    /\ scannerDevice = FALSE
    /\ deviceState = "ready"
    /\ source = "evdev"
    /\ pending = << >>
    /\ consumed = << >>
    /\ world = None
    /\ runs = None

\* the scanner emits an event; digits spell the barcodes of the labels
KeyArrives ==
    /\ pc # "crashed"
    /\ Len(consumed) + Len(pending) < MaxKeys
    /\ \E k \in DeviceEvents :
          /\ k \in {"1", "2"} =>
                \E b \in Barcodes :
                    IsPrefix(Append(DigitsAfterEnter(consumed \o pending), k), b)
          /\ pending' = Append(pending, k)
    /\ UNCHANGED <<config, remote, locals, buffer, pc, calls, outcome, scans, mealWindows, now,
                   meal_override, meal_type, scannerDevice, deviceState, source, consumed,
                   world, runs>>

\* one round of the loop, reading digits without regard to the run
ReadEventWrong ==
    /\ pc = "read" \/ (pc # "crashed" /\ pending # << >> /\ Head(pending) \in {"1", "2"})
    /\ source = "evdev"
    /\ scans < MaxScans
    /\ pending # << >>
    /\ pending' = Tail(pending)
    /\ consumed' = Append(consumed, Head(pending))
    /\ LET k == Head(pending)
       IN  IF k = "ENTER"
           THEN /\ buffer' = << >>
                /\ IF buffer # << >>
                   THEN /\ barcode' = buffer
                        /\ meal_type' = Some(ResolveMealType(meal_override, mealWindows, now))
                        /\ pc' = "lookup"
                        /\ calls' = << >>
                        /\ outcome' = "running"
                        /\ scans' = scans + 1
                   ELSE UNCHANGED <<barcode, meal_type, pc, calls, outcome, scans>>
           ELSE IF k \in {"1", "2"}
           THEN /\ buffer' = Append(buffer, k)
                /\ UNCHANGED <<barcode, meal_type, pc, calls, outcome, scans>>
           ELSE UNCHANGED <<buffer, barcode, meal_type, pc, calls, outcome, scans>>
    /\ UNCHANGED <<config, remote, product, suggestion, usda_food, food_id, variant_id, weight,
                   mealWindows, now, meal_override, scannerDevice, deviceState, source, world, runs>>

\* one round of "for event in dev.read_loop()": the next event is taken
\* from the device; an Enter joins and clears the buffer and a non-empty
\* barcode enters process_barcode, which runs up to its first request; a
\* digit is appended to the buffer; any other event is skipped
ReadEvent ==
    /\ pc = "read"
    /\ source = "evdev"
    /\ scans < MaxScans
    /\ pending # << >>
    /\ pending' = Tail(pending)
    /\ consumed' = Append(consumed, Head(pending))
    /\ LET k == Head(pending)
       IN  IF k = "ENTER"
           THEN /\ buffer' = << >>
                /\ IF buffer # << >>
                   THEN /\ barcode' = buffer
                        /\ meal_type' = Some(ResolveMealType(meal_override, mealWindows, now))
                        /\ pc' = "lookup"
                        /\ calls' = << >>
                        /\ outcome' = "running"
                        /\ scans' = scans + 1
                   ELSE UNCHANGED <<barcode, meal_type, pc, calls, outcome, scans>>
           ELSE IF k \in {"1", "2"}
           THEN /\ buffer' = Append(buffer, k)
                /\ UNCHANGED <<barcode, meal_type, pc, calls, outcome, scans>>
           ELSE UNCHANGED <<buffer, barcode, meal_type, pc, calls, outcome, scans>>
    /\ UNCHANGED <<config, remote, product, suggestion, usda_food, food_id, variant_id, weight,
                   mealWindows, now, meal_override, scannerDevice, deviceState, source, world, runs>>

NextReader ==
    \/ KeyArrives
    \/ ReadEvent
    \/ LookupBarcode
    \/ CreateOrGetFood
    \/ LogFoodEntry
    \/ Return

SpecReader == InitReader /\ [][NextReader]_vars

(***************************************************************************)
(* The two variants of the pipeline, barcode_scanner.py (v1) and           *)
(* barcode_scanner_v2.py (v2), run on the same scan against the same       *)
(* answers of the remote services.  The secondary source is not            *)
(* configured, which takes the enrichment out of v2.  A run is what the    *)
(* variant built from the primary source, how it ended, and the diary      *)
(* entry it submitted.                                                     *)
(***************************************************************************)
\* barcode_scanner.py, build_food_suggestion
build_food_suggestion_v1(p) ==
    [name |-> IF IsNone(p.product_name) \/ Val(p.product_name) = << >>
              THEN UnknownProduct
              ELSE Val(p.product_name),
     brand |-> p.brands,
     barcode |-> IF IsNone(p.code) THEN << >> ELSE Val(p.code),
     custom_nutrients |-> {}]
    @@ MeasuredFill(p)

\* barcode_scanner.py, create_or_get_food: the foodId of a 200 response
create_or_get_food_v1(resp) ==
    IF resp.status_code # 200 THEN None ELSE resp.foodId

\* barcode_scanner.py, get_default_variant: the id of the first variant
get_default_variant(resp) ==
    IF resp.status_code # 200 THEN None
    ELSE IF resp.variants = << >> THEN None
    ELSE resp.variants[1].id

\* what the catalog holds for the candidate and how it answers the request
\* that creates or finds it: a status, the food's id, its default variant
CatalogAnswers ==
    [status_code : {200, 201, 500}, id : {None, Some(1)}, variant : {None, Some(101)}]

\* the answer as the response of POST /api/foods/create-or-get (v1)
CreateResponseV1(answer) ==
    [raised |-> FALSE, status_code |-> answer.status_code, foodId |-> answer.id]

\* the answer as the response of GET /api/foods/food-variants (v1)
VariantsResponseV1(answer) ==
    [raised |-> FALSE, status_code |-> 200,
     variants |-> IF IsNone(answer.variant) THEN << >> ELSE <<[id |-> answer.variant]>>]

\* the answer as the response of POST /api/foods (v2)
CreateResponseV2(answer) ==
    [raised |-> FALSE, status_code |-> answer.status_code, id |-> answer.id,
     default_variant |-> IF IsNone(answer.variant) THEN [tag |-> "missing", id |-> None]
                         ELSE [tag |-> "dict", id |-> answer.variant]]

Worlds ==
    [off : OffResponses(ProductsFor(<<"1">>, TRUE)) \ {Raised},
     catalog : CatalogAnswers,
     scale : {[raised |-> FALSE, status_code |-> 500],
              [raised |-> FALSE, status_code |-> 200, value |-> Some(0)],
              [raised |-> FALSE, status_code |-> 200, value |-> Some(2504)]},
     diary : {[raised |-> FALSE, status_code |-> sc] : sc \in {201, 500}}]

NutrientsOf(s) == [k \in SparkyKeys |-> s[k]]

\* the end of either variant once it holds a food id and a variant id
LogRun(w, nutrients, fid, vid, meal) ==
    [nutrients |-> Some(nutrients),
     outcome |-> IF w.diary.status_code \in {200, 201} THEN "logged" ELSE "log_failed",
     diary |-> Some([food_id |-> fid, variant_id |-> vid, meal_type |-> meal,
                     quantity |-> Quantity(get_scale_weight(w.scale))])]

\* barcode_scanner.py, process_barcode
process_barcode_v1(w, meal) ==
    LET product_ == lookup_barcode(w.off)
    IN  IF IsNone(product_)
        THEN [nutrients |-> None, outcome |-> "not_found", diary |-> None]
        ELSE LET s == build_food_suggestion_v1(Val(product_))
                 fid == create_or_get_food_v1(CreateResponseV1(w.catalog))
                 vid == get_default_variant(VariantsResponseV1(w.catalog))
             IN  IF IsNone(fid) \/ IsNone(vid)
                 THEN [nutrients |-> Some(NutrientsOf(s)), outcome |-> "create_failed",
                       diary |-> None]
                 ELSE LogRun(w, NutrientsOf(s), fid, vid, meal)

\* barcode_scanner_v2.py, process_barcode, without a secondary source
process_barcode_v2(w, meal) ==
    LET product_ == lookup_barcode(w.off)
    IN  IF IsNone(product_)
        THEN [nutrients |-> None, outcome |-> "not_found", diary |-> None]
        ELSE LET s == FlagForReview(build_food_suggestion(Val(product_)))
                 ids == create_or_get_food(CreateResponseV2(w.catalog))
             IN  IF ~IdentityUsable(ids[1], ids[2])
                 THEN [nutrients |-> Some(NutrientsOf(s)), outcome |-> "create_failed",
                       diary |-> None]
                 ELSE LogRun(w, NutrientsOf(s), ids[1], ids[2], meal)

InitVariants ==
    /\ usdaProviderId = FALSE
    /\ scaleUrl = TRUE
    /\ buffer = << >>
    /\ pc = "call"
    /\ barcode = <<"1">>
    /\ product = None
    /\ suggestion = None
    /\ usda_food = None
    /\ food_id = None
    /\ variant_id = None
    /\ weight = None
    /\ calls = << >>
    /\ outcome = "idle"
    /\ catalog = << >>
    /\ offCodes = [b \in Barcodes |-> "unknown"]
    /\ identities = << >>
    /\ scans = 0
    /\ mealWindows = DefaultWindows
    /\ now = TimeOf(9, 59, 59)
    /\ meal_override = None
    /\ meal_type = None
    /\ scannerDevice = FALSE
    /\ deviceState = "ready"
    /\ source = "evdev"
    /\ pending = << >>
    /\ consumed = << >>
    /\ world \in {Some(w) : w \in Worlds}
    /\ runs = None

\* the scan goes through both variants
RunVariants ==
    /\ pc = "call"
    /\ LET meal == ResolveMealType(meal_override, mealWindows, now)
       IN  runs' = Some([v1 |-> process_barcode_v1(Val(world), meal),
                         v2 |-> process_barcode_v2(Val(world), meal)])
    /\ pc' = "done"
    /\ UNCHANGED <<config, remote, locals, buffer, calls, outcome, scans, mealWindows, now,
                   meal_override, meal_type, scannerDevice, deviceState, source, pending,
                   consumed, world>>

NextVariants == RunVariants

SpecVariants == InitVariants /\ [][NextVariants]_vars

(***************************************************************************)
(* Properties.                                                             *)
(***************************************************************************)

\* C1: a failure inside one run (a not-found lookup, a non-success
\* response, a request that fails in transit) ends only that run: the run
\* stands at its return to the read loop, and the reader is alive.
C1_FailureEndsOnlyThatRun ==
    outcome \in {"not_found", "create_failed", "log_failed", "transport_error"}
        => pc = "done"

\* C2: once the primary lookup of a run has yielded not-found, the run
\* holds no catalog create request and no diary request, and it has ended.
C2_NotFoundNoWrites ==
    (\E i \in 1..Len(calls) : calls[i].op = "off" /\ ~calls[i].found)
        => /\ CallsOf("create") = << >>
           /\ CallsOf("diary") = << >>
           /\ pc \in {"done", "crashed"}
           /\ pc = "done" => outcome = "not_found"

C2_Witness == pc = "done" /\ outcome = "not_found" /\ Len(calls) = 1

C4_FirstWriterWins ==
    (product # None /\ suggestion # None) =>
        LET p == Val(product)
            s == Val(suggestion)
            m == MeasuredFill(p)
            e == build_food_suggestion(p)
            est(k) == IF IsNone(p.nutriments_estimated) THEN None
                      ELSE Val(p.nutriments_estimated)[OffKeyOf(k)]
        IN  /\ \A k \in SparkyKeys : m[k] # 0 => s[k] = m[k]
            /\ usda_food = None =>
                  \A k \in SparkyKeys :
                      s[k] # m[k] => /\ m[k] = 0
                                     /\ ~IsNone(est(k))
                                     /\ Val(est(k)) > 0
                                     /\ s[k] = Round2(Val(est(k)))
            /\ usda_food # None =>
                  \A k \in SparkyKeys :
                      /\ e[k] # 0 => s[k] = e[k]
                      /\ s[k] # e[k] =>
                            \E i \in 1..Len(Val(usda_food).foodNutrients) :
                                LET row == Val(usda_food).foodNutrients[i]
                                IN  /\ row.nutrientId \in {Some(id) : id \in DOMAIN USDA_NUTRIENT_MAP}
                                    /\ USDA_NUTRIENT_MAP[Val(row.nutrientId)] = k
                                    /\ ~IsNone(row.value)
                                    /\ Val(row.value) > 0
                                    /\ s[k] = Round2(Val(row.value))

\* the secondary source offered a positive protein and the negative
\* measured protein stayed
C4_Witness ==
    /\ product # None /\ suggestion # None /\ usda_food # None
    /\ MeasuredFill(Val(product))["protein"] < 0
    /\ Val(suggestion)["protein"] = MeasuredFill(Val(product))["protein"]
    /\ \E i \in 1..Len(Val(usda_food).foodNutrients) :
          Val(usda_food).foodNutrients[i] = [nutrientId |-> Some(1003), value |-> Some(3500)]

\* C4 as first stated: the above, and every value the estimated fill
\* writes (a key zero after the measured block, whose estimate is strictly
\* positive) is strictly positive.
C4_WrittenValuesPositive ==
    /\ C4_FirstWriterWins
    /\ (product # None /\ suggestion # None /\ usda_food = None) =>
          \A k \in SparkyKeys :
              LET p == Val(product)
                  val == IF IsNone(p.nutriments_estimated) THEN None
                         ELSE Val(p.nutriments_estimated)[OffKeyOf(k)]
              IN  (MeasuredFill(p)[k] = 0 /\ ~IsNone(val) /\ Val(val) > 0)
                      => Val(suggestion)[k] > 0

\* C5: the secondary source is queried in a run only if, after the
\* measured and the estimated block, protein, carbohydrate and fat are
\* all zero.
C5_SecondaryOnlyIfAllZero ==
    (product # None /\ CallsOf("usda") # << >>)
        => \A k \in CoreMacros : build_food_suggestion(Val(product))[k] = 0

\* C6: the secondary queries of a run are, in this order, the barcode, the
\* brand followed by the name (the name alone under an empty brand), the
\* name; at most three are sent, a query is sent only after every earlier
\* one found nothing, none is sent after one found a food, and the food
\* used is that of the query that found one.
C6_QueryOrder ==
    LET qs == CallsOf("usda")
    IN  /\ Len(qs) <= 3
        /\ \A i \in 1..Len(qs) : i < Len(qs) => ~qs[i].found
        /\ pc = "usda" => Len(qs) < 3 /\ usda_food = None
        /\ pc = "create" => (usda_food # None <=> (qs # << >> /\ qs[Len(qs)].found))
        /\ product # None =>
              LET p == Val(product)
                  name == IF IsNone(p.product_name) THEN <<"?">> ELSE Val(p.product_name)
                  expected == <<barcode,
                                IF p.brands = << >> THEN name
                                ELSE p.brands \o <<" ">> \o name,
                                name>>
              IN  \A i \in 1..Len(qs) : qs[i].query = expected[i]

C6_Witness ==
    /\ pc = "create"
    /\ product # None /\ Val(product).brands # << >>
    /\ Len(CallsOf("usda")) = 3
    /\ CallsOf("usda")[3].found
    /\ usda_food # None

\* C7: the candidate about to be sent to the catalog carries the review
\* marker at the end of its name, and the review flag in its auxiliary map,
\* exactly when none of protein, carbohydrate and fat is strictly positive
\* after all fills; and a run whose primary lookup found a product is never
\* ended before its catalog request.
C7_ReviewFlag ==
    /\ pc = "create" =>
          LET s == Val(suggestion)
              incomplete == \A k \in CoreMacros : s[k] <= 0
              marked == /\ Len(s.name) >= Len(ReviewMarker)
                        /\ SubSeq(s.name, Len(s.name) - Len(ReviewMarker) + 1, Len(s.name))
                              = ReviewMarker
          IN  /\ ("needs_review" \in s.custom_nutrients) <=> incomplete
              /\ marked <=> incomplete
    /\ (pc \in {"scale", "log", "done"} /\ outcome # "not_found")
          => Len(CallsOf("create")) = 1

\* a flagged candidate went to the catalog and its diary entry was logged
C7_Witness ==
    /\ outcome = "logged"
    /\ \E i \in 1..Len(calls) :
          calls[i].op = "create" /\ "needs_review" \in calls[i].custom_nutrients

C10_ScaleNeverAborts ==
    LET sc == CallsOf("scale")
        positive == /\ sc # << >>
                    /\ ~sc[1].resp.raised
                    /\ sc[1].resp.status_code = 200
                    /\ ~IsNone(sc[1].resp.value)
                    /\ Val(sc[1].resp.value) > 0
    IN  /\ Len(sc) <= 1
        /\ ~scaleUrl => sc = << >>
        /\ sc # << >> => pc \in {"log", "done", "crashed"}
        /\ (food_id # None /\ pc \in {"done", "crashed"}) => Len(CallsOf("diary")) = 1
        /\ \A i \in 1..Len(calls) :
              calls[i].op = "diary" =>
                  calls[i].quantity = IF positive THEN Round2(Val(sc[1].resp.value))
                                      ELSE 1000

\* the scale answered 0 and the diary request carries quantity 1
C10_Witness ==
    /\ CallsOf("scale") # << >>
    /\ ~CallsOf("scale")[1].resp.raised
    /\ CallsOf("scale")[1].resp.status_code = 200
    /\ CallsOf("scale")[1].resp.value = Some(0)
    /\ CallsOf("diary") # << >>
    /\ CallsOf("diary")[1].quantity = 1000

\* C11: a run sends at most one diary request; the request is the last one
\* of its run, it follows a catalog response of the same run that was a
\* success and held both the food id and the variant id, and it carries
\* exactly the two ids that response returned; after a non-success diary
\* response the run is over with that single request.
C11_OneDiarySubmission ==
    /\ Len(CallsOf("diary")) <= 1
    /\ \A i \in 1..Len(calls) :
          calls[i].op = "diary" =>
              /\ i = Len(calls)
              /\ \E j \in 1..(i - 1) :
                    /\ calls[j].op = "create"
                    /\ ~calls[j].raised /\ calls[j].ok
                    /\ calls[j].has_id /\ calls[j].has_variant
              /\ identities # << >>
              /\ identities[Len(identities)].barcode = barcode
              /\ calls[i].food_id # None
              /\ calls[i].variant_id # None
              /\ calls[i].food_id = identities[Len(identities)].food_id
              /\ calls[i].variant_id = identities[Len(identities)].variant_id
    /\ outcome \in {"logged", "log_failed"}
          => pc = "done" /\ Len(CallsOf("diary")) = 1

\* the diary service refused the entry and the run returned
C11_Witness ==
    /\ pc = "done"
    /\ outcome = "log_failed"
    /\ Len(CallsOf("diary")) = 1

\* C12: the meal type of a run is the override when its caller passed one;
\* otherwise it is the name of the first window, in the order Breakfast,
\* Lunch, Dinner, whose start is at or before the clock's reading and whose
\* end is after it, and "Snack" when there is no such window.
C12_MealType ==
    pc = "lookup" =>
        LET start(i) == ParseTime(Strip(SplitWindow(mealWindows[i].window)[1]))
            end(i) == ParseTime(Strip(SplitWindow(mealWindows[i].window)[2]))
            containing == {i \in 1..Len(mealWindows) : start(i) <= now /\ now < end(i)}
            first == CHOOSE i \in containing : \A j \in containing : i <= j
        IN  meal_type = IF meal_override # None THEN meal_override
                        ELSE IF containing = {} THEN Some("Snack")
                        ELSE Some(mealWindows[first].meal)

\* two windows contain the reading and the earlier one names the meal
C12_Witness ==
    /\ pc = "lookup"
    /\ meal_override = None
    /\ now = TimeOf(11, 30, 0)
    /\ mealWindows[1].window = <<"0", "5", ":", "0", "0", "-", "1", "2", ":", "0", "0">>
    /\ meal_type = Some("Breakfast")

\* C13: once main has chosen its input source, a scanner device that is
\* not there, may not be opened or cannot be grabbed has made it choose the
\* typed-line source, whether SCANNER_DEVICE is set or not, and the process
\* has not ended on a device error.
C13_DeviceFailureFallsBack ==
    (pc # "main" /\ deviceState \in {"absent", "denied", "busy"})
        => /\ source = "stdin"
           /\ outcome # "device_error"

\* C14: the candidate about to be sent to the catalog holds every nutrient
\* key, each with a value that is not negative, and a key for which neither
\* the measured block, nor the estimated block, nor the secondary food used
\* holds a value is zero.
C14_RecordNonNegative ==
    pc = "create" =>
        LET s == Val(suggestion)
            p == Val(product)
            supplied(k) ==
                \/ ~IsNone(p.nutriments[OffKeyOf(k)])
                \/ /\ ~IsNone(p.nutriments_estimated)
                   /\ ~IsNone(Val(p.nutriments_estimated)[OffKeyOf(k)])
                \/ /\ ~IsNone(usda_food)
                   /\ \E i \in 1..Len(Val(usda_food).foodNutrients) :
                         LET row == Val(usda_food).foodNutrients[i]
                         IN  /\ row.nutrientId \in {Some(id) : id \in DOMAIN USDA_NUTRIENT_MAP}
                             /\ USDA_NUTRIENT_MAP[Val(row.nutrientId)] = k
                             /\ ~IsNone(row.value)
        IN  /\ SparkyKeys \subseteq DOMAIN s
            /\ \A k \in SparkyKeys :
                  /\ s[k] >= 0
                  /\ ~supplied(k) => s[k] = 0

\* C15: while a run is in progress no event is read and the key buffer is
\* empty: the last event read is the Enter that completed the barcode of the
\* run, which is spelled by the digits read before that Enter, so that
\* every event emitted since is still waiting at the device; between runs
\* the buffer holds the digits read since the last Enter; an event is read,
\* and a run starts, only in a step taken by the idle read loop; and no
\* step of a run changes its barcode or the buffer.
C15_OneRunAtATime ==
    /\ [](pc \notin {"read", "crashed"} =>
            /\ buffer = << >>
            /\ consumed # << >>
            /\ consumed[Len(consumed)] = "ENTER"
            /\ barcode = DigitsAfterEnter(SubSeq(consumed, 1, Len(consumed) - 1))
            /\ barcode # << >>)
    /\ [](pc = "read" => buffer = DigitsAfterEnter(consumed))
    /\ [][/\ consumed' # consumed => pc = "read"
          /\ scans' # scans => (pc = "read" /\ pc' = "lookup" /\ scans' = scans + 1)
          /\ (pc # "read" /\ pc' # "read") => (barcode' = barcode /\ buffer' = buffer)]_vars

\* two digits and an Enter arrived during a run and wait at the device
C15_Witness ==
    /\ pc = "log"
    /\ Len(pending) >= 2
    /\ pending[1] \in {"1", "2"}
    /\ pending[Len(pending)] = "ENTER"

\* C16: for every answer of the primary source, the catalog, the scale and
\* the diary, the two variants build the same nutrient record from the
\* primary source's product, end at the same step, and submit the same
\* diary entry.
C16_VariantsAgree ==
    runs # None =>
        /\ Val(runs).v1.nutrients = Val(runs).v2.nutrients
        /\ Val(runs).v1.outcome = Val(runs).v2.outcome
        /\ Val(runs).v1.diary = Val(runs).v2.diary

====
